---- MODULE Spec2Model ----
(***************************************************************************)
(* A model of wdlg: native Windows file dialogs (wdlg/filedialog.py) and   *)
(* task-dialog message boxes (wdlg/messagebox.py).                         *)
(*                                                                         *)
(* Every call into the operating system is one step.  A call made through  *)
(* ctypes.oledll raises OSError when the HRESULT it returns is a failure   *)
(* code; whether a call succeeds is the operating system's choice, drawn   *)
(* here with \E ok \in BOOLEAN.  A `with` block is an entry on `stack`;    *)
(* leaving the block, by falling off its end, by `return` or by a raised   *)
(* OSError, pops the entry and runs the context manager's `finally`.       *)
(* The operating system is modelled by its documented contract: a failed   *)
(* call leaves its out-pointer null, Release and the two void functions    *)
(* CoUninitialize and CoTaskMemFree do not fail.                           *)
(***************************************************************************)
EXTENDS Integers, Sequences, FiniteSets, TLC

VARIABLES
    fn,        \* the file dialog function being executed
    args,      \* its arguments: hwnd, initialdir, initialfile, filetypes
    pc,        \* the statement the call is at
    mode,      \* "run", or why the with blocks are being left
    stack,     \* the open with blocks, innermost last: [cm, ptr]
    objs,      \* the COM objects this call acquired: [kind, releases, path]
    bufs,      \* the strings the OS allocated for this call: [str, frees]
    log,       \* the OS calls made by this call, in order: [op, ptr]
    comDepth,  \* the thread's COM initialization depth
    depth0,    \* comDepth when the call started
    dlg,       \* the state of the dialog object
    loc,       \* local variables: options, count, i, pfilepath, ret
    result,    \* what the call gave its caller
    mb         \* the last message box call and what it gave its caller

fdvars == <<fn, args, pc, mode, stack, objs, bufs, log, comDepth, depth0,
            dlg, loc, result>>
vars == <<fn, args, pc, mode, stack, objs, bufs, log, comDepth, depth0,
          dlg, loc, result, mb>>

-----------------------------------------------------------------------------
\* Bounds of the model.
MaxFiletypes == 2   \* longest filetypes list passed by a caller
MaxCount == 2       \* most items the user selects in a multi-select dialog
MaxDepth == 1       \* deepest COM initialization the caller already holds

\* Program constants.
FOS_OVERWRITEPROMPT == 2
FOS_PICKFOLDERS == 32
FOS_ALLOWMULTISELECT == 512
FOS_PATHMUSTEXIST == 2048
FOS_FILEMUSTEXIST == 4096

None == "None"

\* Python truthiness of an optional str: None and "" are false.
Truthy(s) == s # None /\ s # ""

\* An optional list is [none, list]; None and [] are false.
TruthyList(l) == ~l.none /\ Len(l.list) > 0

BitOr_Replace(a, b) == b

\* The | operator on unsigned integers.
RECURSIVE BitOr(_, _)
BitOr(a, b) ==
    IF a = 0 THEN b
    ELSE IF b = 0 THEN a
    ELSE (IF a % 2 = 1 \/ b % 2 = 1 THEN 1 ELSE 0) + 2 * BitOr(a \div 2, b \div 2)

-----------------------------------------------------------------------------
\* The values callers pass and the OS produces.
FileDialogs == {"askdirectory", "askopenfilename", "askopenfilenames",
                "asksaveasfilename"}
Hwnds == {None, "HWND1"}
Dirs == {None, "", "C:\\dir"}
Files == {None, "", "a.txt"}
FilterSpecs == {<<"Text", "*.txt">>, <<"All", "*.*">>}
SeqsUpTo(S, n) == UNION {[1..k -> S] : k \in 0..n}
Filetypes == {[none |-> TRUE, list |-> <<>>]}
             \cup {[none |-> FALSE, list |-> l] : l \in SeqsUpTo(FilterSpecs, MaxFiletypes)}
Paths == {"C:\\dir\\a.txt", "C:\\dir\\b.txt"}
Args == [hwnd : Hwnds, initialdir : Dirs, initialfile : Files, filetypes : Filetypes]

\* The options a freshly created dialog has (comments at filedialog.py:30-34).
DefaultOptions(f) ==
    IF f = "asksaveasfilename" THEN FOS_OVERWRITEPROMPT + FOS_PATHMUSTEXIST
    ELSE FOS_PATHMUSTEXIST + FOS_FILEMUSTEXIST

NoLoc == [options |-> 0, count |-> 0, i |-> 0, pfilepath |-> 0,
          ret |-> [kind |-> "unset", str |-> "", list |-> <<>>]]
NoDlg == [options |-> 0, folder |-> 0, fileName |-> None, fileTypes |-> <<>>,
          nFileTypes |-> 0, defaultExt |-> None, owner |-> None,
          selection |-> <<>>]
NoResult == [kind |-> "pending", str |-> "", list |-> <<>>]
NoArgs == [hwnd |-> None, initialdir |-> None, initialfile |-> None,
           filetypes |-> [none |-> TRUE, list |-> <<>>]]
NoMb == [fn |-> "none"]

-----------------------------------------------------------------------------
\* Helpers over the call's state.
Top == stack[Len(stack)]
SetTopPtr(p) == [stack EXCEPT ![Len(stack)].ptr = p]
Push(cm) == Append(stack, [cm |-> cm, ptr |-> 0])
\* pdlg is the pointer bound by the second with block.
pdlg == stack[2].ptr
Logged(op, p) == Append(log, [op |-> op, ptr |-> p])
NewObj(kind, path) == Append(objs, [kind |-> kind, releases |-> 0, path |-> path])

\* IUnknown::Release through a pointer: one reference of the object is dropped.
ReleaseObj(os, p) == IF p = 0 THEN os ELSE [os EXCEPT ![p].releases = @ + 1]

-----------------------------------------------------------------------------
\* The context managers.

_COM_InitInsideTry(ok) == TRUE

\* _COM: CoInitializeEx is called before the try, so the finally (CoUninitialize)
\* covers the block only when CoInitializeEx returned without raising.
_COM(ok) == ok

\* _get_pIFileOpenDialog / _get_pIFileSaveDialog: CoCreateInstance is called
\* before the try; the finally releases pdlg without a null test.
_get_pIFileDialog(ok) == ok
DialogFinallyReleases(ptr) == TRUE

ShellFinallyReleases_NoNullTest(ptr) == TRUE

\* _get_pIShellItem / _get_pIShellItemArray: the finally releases the pointer
\* "if not null pointer".
ShellFinallyReleases(ptr) == ptr # 0

FinallyReleases(t) ==
    IF t.cm = "dlg" THEN DialogFinallyReleases(t.ptr) ELSE ShellFinallyReleases(t.ptr)

\* Leaving the i-th open with block: its context manager's finally runs.
Pop(i) ==
    LET t == stack[i] IN
    /\ stack' = SubSeq(stack, 1, i - 1) \o SubSeq(stack, i + 1, Len(stack))
    /\ IF t.cm = "COM"
       THEN /\ comDepth' = comDepth - 1
            /\ log' = Logged("CoUninitialize", 0)
            /\ objs' = objs
       ELSE IF FinallyReleases(t)
       THEN /\ objs' = ReleaseObj(objs, t.ptr)
            /\ log' = Logged("Release", t.ptr)
            /\ comDepth' = comDepth
       ELSE UNCHANGED <<objs, log, comDepth>>

\* Python leaves nested with blocks innermost first.
PopTop == Pop(Len(stack))

Raise_Swallowed ==
    /\ mode' = "return"
    /\ pc' = "unwind"

\* An oledll call returned a failure HRESULT: OSError is raised.
Raise ==
    /\ mode' = "raise"
    /\ pc' = "unwind"

UsesOptions(f) == f \in {"askdirectory", "askopenfilenames"}
OptionBit(f) == IF f = "askdirectory" THEN FOS_PICKFOLDERS ELSE FOS_ALLOWMULTISELECT

-----------------------------------------------------------------------------
\* The file dialog functions, statement by statement.

Init ==
    /\ fn = "none"
    /\ args = NoArgs
    /\ pc = "idle"
    /\ mode = "run"
    /\ stack = <<>>
    /\ objs = <<>>
    /\ bufs = <<>>
    /\ log = <<>>
    /\ comDepth \in 0..MaxDepth
    /\ depth0 = comDepth
    /\ dlg = NoDlg
    /\ loc = NoLoc
    /\ result = NoResult
    /\ mb = NoMb

\* A caller calls one of the four functions.
Call ==
    /\ pc = "idle"
    /\ \E f \in FileDialogs, a \in Args :
          /\ f = "askdirectory" =>
                a.initialfile = None /\ a.filetypes.none
          /\ fn' = f
          /\ args' = a
    /\ pc' = "CoInitializeEx"
    /\ mode' = "run"
    /\ stack' = <<>>
    /\ objs' = <<>>
    /\ bufs' = <<>>
    /\ log' = <<>>
    /\ depth0' = comDepth
    /\ dlg' = NoDlg
    /\ loc' = NoLoc
    /\ result' = NoResult
    /\ UNCHANGED <<comDepth, mb>>

\* with _COM():
CoInitializeEx ==
    /\ pc = "CoInitializeEx"
    /\ \E ok \in BOOLEAN :
          /\ log' = Logged(IF ok THEN "CoInitializeEx" ELSE "CoInitializeEx!", 0)
          /\ comDepth' = IF ok THEN comDepth + 1 ELSE comDepth
          /\ stack' = IF _COM(ok) THEN Push("COM") ELSE stack
          /\ IF ok THEN pc' = "CoCreateInstance" /\ mode' = mode ELSE Raise
    /\ UNCHANGED <<fn, args, objs, bufs, depth0, dlg, loc, result, mb>>

\* with _get_pIFileOpenDialog() as pdlg: / with _get_pIFileSaveDialog() as pdlg:
CoCreateInstance ==
    /\ pc = "CoCreateInstance"
    /\ \E ok \in BOOLEAN :
          /\ log' = Logged(IF ok THEN "CoCreateInstance" ELSE "CoCreateInstance!", 0)
          /\ objs' = IF ok THEN NewObj("dlg", "") ELSE objs
          /\ stack' = IF _get_pIFileDialog(ok)
                      THEN Append(stack, [cm |-> "dlg",
                                          ptr |-> IF ok THEN Len(objs) + 1 ELSE 0])
                      ELSE stack
          /\ dlg' = IF ok THEN [NoDlg EXCEPT !.options = DefaultOptions(fn)] ELSE dlg
          /\ IF ok
             THEN /\ pc' = IF UsesOptions(fn) THEN "GetOptions" ELSE "if_initialdir"
                  /\ mode' = mode
             ELSE Raise
    /\ UNCHANGED <<fn, args, bufs, comDepth, depth0, loc, result, mb>>

\* pdlg...GetOptions(pdlg, byref(options))
GetOptions ==
    /\ pc = "GetOptions"
    /\ \E ok \in BOOLEAN :
          /\ log' = Logged(IF ok THEN "GetOptions" ELSE "GetOptions!", pdlg)
          /\ loc' = IF ok THEN [loc EXCEPT !.options = dlg.options] ELSE loc
          /\ IF ok THEN pc' = "SetOptions" /\ mode' = mode ELSE Raise
    /\ UNCHANGED <<fn, args, stack, objs, bufs, comDepth, depth0, dlg, result, mb>>

\* pdlg...SetOptions(pdlg, options.value | FOS_...)
SetOptions ==
    /\ pc = "SetOptions"
    /\ \E ok \in BOOLEAN :
          /\ log' = Logged(IF ok THEN "SetOptions" ELSE "SetOptions!", pdlg)
          /\ dlg' = IF ok
                    THEN [dlg EXCEPT !.options = BitOr(loc.options, OptionBit(fn))]
                    ELSE dlg
          /\ IF ok THEN pc' = "if_initialdir" /\ mode' = mode ELSE Raise
    /\ UNCHANGED <<fn, args, stack, objs, bufs, comDepth, depth0, loc, result, mb>>

\* if initialdir: with _get_pIShellItem() as pitem:
IfInitialdir ==
    /\ pc = "if_initialdir"
    /\ IF Truthy(args.initialdir)
       THEN /\ stack' = Push("item")
            /\ pc' = "SHCreateItemFromParsingName"
       ELSE /\ stack' = stack
            /\ pc' = IF fn = "askdirectory" THEN "Show" ELSE "if_initialfile"
    /\ UNCHANGED <<fn, args, mode, objs, bufs, log, comDepth, depth0, dlg, loc,
                   result, mb>>

\* SHCreateItemFromParsingName(initialdir, None, IID_IShellItem, byref(pitem))
SHCreateItemFromParsingName ==
    /\ pc = "SHCreateItemFromParsingName"
    /\ \E ok \in BOOLEAN :
          /\ log' = Logged(IF ok THEN "SHCreateItemFromParsingName"
                           ELSE "SHCreateItemFromParsingName!", 0)
          /\ objs' = IF ok THEN NewObj("item", args.initialdir) ELSE objs
          /\ stack' = IF ok THEN SetTopPtr(Len(objs) + 1) ELSE stack
          /\ IF ok THEN pc' = "SetFolder" /\ mode' = mode ELSE Raise
    /\ UNCHANGED <<fn, args, bufs, comDepth, depth0, dlg, loc, result, mb>>

\* pdlg...SetFolder(pdlg, pitem)
SetFolder ==
    /\ pc = "SetFolder"
    /\ \E ok \in BOOLEAN :
          /\ log' = Logged(IF ok THEN "SetFolder" ELSE "SetFolder!", pdlg)
          /\ dlg' = IF ok THEN [dlg EXCEPT !.folder = Top.ptr] ELSE dlg
          /\ IF ok THEN pc' = "exit_folder_item" /\ mode' = mode ELSE Raise
    /\ UNCHANGED <<fn, args, stack, objs, bufs, comDepth, depth0, loc, result, mb>>

\* The end of the with _get_pIShellItem() block of initialdir.
ExitFolderItem ==
    /\ pc = "exit_folder_item"
    /\ PopTop
    /\ pc' = IF fn = "askdirectory" THEN "Show" ELSE "if_initialfile"
    /\ UNCHANGED <<fn, args, mode, bufs, depth0, dlg, loc, result, mb>>

\* if initialfile:
IfInitialfile ==
    /\ pc = "if_initialfile"
    /\ pc' = IF Truthy(args.initialfile) THEN "SetFileName" ELSE "if_filetypes"
    /\ UNCHANGED <<fn, args, mode, stack, objs, bufs, log, comDepth, depth0, dlg,
                   loc, result, mb>>

\* pdlg...SetFileName(pdlg, initialfile)
SetFileName ==
    /\ pc = "SetFileName"
    /\ \E ok \in BOOLEAN :
          /\ log' = Logged(IF ok THEN "SetFileName" ELSE "SetFileName!", pdlg)
          /\ dlg' = IF ok THEN [dlg EXCEPT !.fileName = args.initialfile] ELSE dlg
          /\ IF ok THEN pc' = "if_filetypes" /\ mode' = mode ELSE Raise
    /\ UNCHANGED <<fn, args, stack, objs, bufs, comDepth, depth0, loc, result, mb>>

\* if filetypes:
IfFiletypes ==
    /\ pc = "if_filetypes"
    /\ pc' = IF TruthyList(args.filetypes) THEN "SetFileTypes" ELSE "Show"
    /\ UNCHANGED <<fn, args, mode, stack, objs, bufs, log, comDepth, depth0, dlg,
                   loc, result, mb>>

from_tuple_Swapped(filetype) == [pszName |-> filetype[2], pszSpec |-> filetype[1]]

\* COMDLG_FILTERSPEC.from_tuple
from_tuple(filetype) == [pszName |-> filetype[1], pszSpec |-> filetype[2]]

\* rgSpec = (COMDLG_FILTERSPEC * len(filetypes))(); rgSpec[i] = from_tuple(ft)
rgSpec(filetypes) == [i \in 1..Len(filetypes) |-> from_tuple(filetypes[i])]

\* pdlg...SetFileTypes(pdlg, len(filetypes), rgSpec)
SetFileTypes ==
    /\ pc = "SetFileTypes"
    /\ \E ok \in BOOLEAN :
          /\ log' = Logged(IF ok THEN "SetFileTypes" ELSE "SetFileTypes!", pdlg)
          /\ dlg' = IF ok
                    THEN [dlg EXCEPT !.fileTypes = rgSpec(args.filetypes.list),
                                     !.nFileTypes = Len(args.filetypes.list)]
                    ELSE dlg
          /\ IF ok THEN pc' = "SetDefaultExtension" /\ mode' = mode ELSE Raise
    /\ UNCHANGED <<fn, args, stack, objs, bufs, comDepth, depth0, loc, result, mb>>

\* pdlg...SetDefaultExtension(pdlg, "")
SetDefaultExtension ==
    /\ pc = "SetDefaultExtension"
    /\ \E ok \in BOOLEAN :
          /\ log' = Logged(IF ok THEN "SetDefaultExtension"
                           ELSE "SetDefaultExtension!", pdlg)
          /\ dlg' = IF ok THEN [dlg EXCEPT !.defaultExt = ""] ELSE dlg
          /\ IF ok THEN pc' = "Show" /\ mode' = mode ELSE Raise
    /\ UNCHANGED <<fn, args, stack, objs, bufs, comDepth, depth0, loc, result, mb>>

\* What the user can select when the dialog closes with OK.
Selections(f) ==
    IF f = "askopenfilenames"
    THEN UNION {[1..k -> Paths] : k \in 1..MaxCount}
    ELSE [1..1 -> Paths]

OnShowOSError_NotCaught == [mode |-> "raise", pc |-> "unwind"]
OnShowOSError_Pass == [mode |-> "run", pc |-> "with_result"]

\* try: Show ... except OSError: return None
OnShowOSError == [mode |-> "return", pc |-> "unwind"]

\* pdlg...Show(pdlg, hwnd)
Show ==
    /\ pc = "Show"
    /\ \/ \E sel \in Selections(fn) :
             /\ log' = Logged("Show", pdlg)
             /\ dlg' = [dlg EXCEPT !.owner = args.hwnd, !.selection = sel]
             /\ pc' = "with_result"
             /\ mode' = mode
       \/ /\ log' = Logged("Show!", pdlg)
          /\ dlg' = [dlg EXCEPT !.owner = args.hwnd]
          /\ mode' = OnShowOSError.mode
          /\ pc' = OnShowOSError.pc
    /\ UNCHANGED <<fn, args, stack, objs, bufs, comDepth, depth0, loc, result, mb>>

\* A dialog that was not closed with OK has no result to give: GetResult and
\* GetResults can only fail on it.
HasSelection == IF dlg.selection = <<>> THEN {FALSE} ELSE BOOLEAN

\* with _get_pIShellItem() as pitem: / with _get_pIShellItemArray() as psia:
WithResult ==
    /\ pc = "with_result"
    /\ IF fn = "askopenfilenames"
       THEN stack' = Push("sia") /\ pc' = "GetResults"
       ELSE stack' = Push("item") /\ pc' = "GetResult"
    /\ UNCHANGED <<fn, args, mode, objs, bufs, log, comDepth, depth0, dlg, loc,
                   result, mb>>

\* pdlg...GetResult(pdlg, byref(pitem))
GetResult ==
    /\ pc = "GetResult"
    /\ \E ok \in HasSelection :
          /\ log' = Logged(IF ok THEN "GetResult" ELSE "GetResult!", pdlg)
          /\ objs' = IF ok THEN NewObj("item", dlg.selection[1]) ELSE objs
          /\ stack' = IF ok THEN SetTopPtr(Len(objs) + 1) ELSE stack
          /\ IF ok THEN pc' = "GetDisplayName" /\ mode' = mode ELSE Raise
    /\ UNCHANGED <<fn, args, bufs, comDepth, depth0, dlg, loc, result, mb>>

\* pdlg...GetResults(pdlg, byref(psia))
GetResults ==
    /\ pc = "GetResults"
    /\ \E ok \in HasSelection :
          /\ log' = Logged(IF ok THEN "GetResults" ELSE "GetResults!", pdlg)
          /\ objs' = IF ok THEN NewObj("sia", "") ELSE objs
          /\ stack' = IF ok THEN SetTopPtr(Len(objs) + 1) ELSE stack
          /\ IF ok THEN pc' = "GetCount" /\ mode' = mode ELSE Raise
    /\ UNCHANGED <<fn, args, bufs, comDepth, depth0, dlg, loc, result, mb>>

\* psia...GetCount(psia, byref(count)); ret = []
GetCount ==
    /\ pc = "GetCount"
    /\ \E ok \in BOOLEAN :
          /\ log' = Logged(IF ok THEN "GetCount" ELSE "GetCount!", Top.ptr)
          /\ loc' = IF ok
                    THEN [loc EXCEPT !.count = Len(dlg.selection), !.i = 0,
                                     !.ret = [kind |-> "list", str |-> "", list |-> <<>>]]
                    ELSE loc
          /\ IF ok THEN pc' = "for_loop" /\ mode' = mode ELSE Raise
    /\ UNCHANGED <<fn, args, stack, objs, bufs, comDepth, depth0, dlg, result, mb>>

\* for i in range(count.value):
InRange(i, count) == i < count

\* for i in range(count.value): with _get_pIShellItem() as pitem:
ForLoop ==
    /\ pc = "for_loop"
    /\ IF InRange(loc.i, loc.count)
       THEN stack' = Push("item") /\ pc' = "GetItemAt" /\ mode' = mode
       ELSE stack' = stack /\ pc' = "unwind" /\ mode' = "exit"
    /\ UNCHANGED <<fn, args, objs, bufs, log, comDepth, depth0, dlg, loc, result, mb>>

ItemIndex_First(i) == 0

\* The index askopenfilenames passes to GetItemAt in iteration i.
ItemIndex(i) == i

\* psia...GetItemAt(psia, i, byref(pitem))
GetItemAt ==
    /\ pc = "GetItemAt"
    /\ \E ok \in BOOLEAN :
          /\ log' = Logged(IF ok THEN "GetItemAt" ELSE "GetItemAt!",
                           stack[Len(stack) - 1].ptr)
          /\ objs' = IF ok THEN NewObj("item", dlg.selection[ItemIndex(loc.i) + 1])
                     ELSE objs
          /\ stack' = IF ok THEN SetTopPtr(Len(objs) + 1) ELSE stack
          /\ IF ok THEN pc' = "GetDisplayName" /\ mode' = mode ELSE Raise
    /\ UNCHANGED <<fn, args, bufs, comDepth, depth0, dlg, loc, result, mb>>

\* pitem...GetDisplayName(pitem, SIGDN_FILESYSPATH, byref(pfilepath)): the OS
\* allocates the string.
GetDisplayName ==
    /\ pc = "GetDisplayName"
    /\ \E ok \in BOOLEAN :
          /\ log' = Logged(IF ok THEN "GetDisplayName" ELSE "GetDisplayName!", Top.ptr)
          /\ bufs' = IF ok THEN Append(bufs, [str |-> objs[Top.ptr].path, frees |-> 0])
                     ELSE bufs
          /\ loc' = IF ok THEN [loc EXCEPT !.pfilepath = Len(bufs) + 1] ELSE loc
          /\ IF ok THEN pc' = "copy_free" /\ mode' = mode ELSE Raise
    /\ UNCHANGED <<fn, args, stack, objs, comDepth, depth0, dlg, result, mb>>

\* Reading a c_wchar_p: the string it points at, or whatever a freed block holds.
Value(b) == IF b.frees > 0 THEN "<freed memory>" ELSE b.str
CoTaskMemFree(bs, p) == [bs EXCEPT ![p].frees = @ + 1]

FreeThenCopyOut(bs, p) ==
    [value |-> Value(CoTaskMemFree(bs, p)[p]), bufs |-> CoTaskMemFree(bs, p)]

\* ret = pfilepath.value; CoTaskMemFree(pfilepath)
CopyOutThenFree(bs, p) == [value |-> Value(bs[p]), bufs |-> CoTaskMemFree(bs, p)]

\* ret = pfilepath.value / ret.append(p_path.value), then CoTaskMemFree
CopyOutAndFree ==
    /\ pc = "copy_free"
    /\ LET r == CopyOutThenFree(bufs, loc.pfilepath) IN
          /\ bufs' = r.bufs
          /\ log' = Logged("CoTaskMemFree", 0)
          /\ IF fn = "askopenfilenames"
             THEN /\ loc' = [loc EXCEPT !.ret.list = Append(@, r.value)]
                  /\ pc' = "exit_loop_item"
                  /\ mode' = mode
             ELSE /\ loc' = [loc EXCEPT !.ret = [kind |-> "str", str |-> r.value,
                                                 list |-> <<>>]]
                  /\ pc' = "unwind"
                  /\ mode' = "exit"
    /\ UNCHANGED <<fn, args, stack, objs, comDepth, depth0, dlg, result, mb>>

\* The end of the with _get_pIShellItem() block in the loop; the next i.
ExitLoopItem ==
    /\ pc = "exit_loop_item"
    /\ PopTop
    /\ loc' = [loc EXCEPT !.i = @ + 1]
    /\ pc' = "for_loop"
    /\ UNCHANGED <<fn, args, mode, bufs, depth0, dlg, result, mb>>

Unwind_OuterFirst ==
    /\ pc = "unwind"
    /\ stack # <<>>
    /\ Pop(1)
    /\ UNCHANGED <<fn, args, pc, mode, bufs, depth0, dlg, loc, result, mb>>

\* The with blocks are left, innermost first, at the end of the function body,
\* at `return None` or while an OSError propagates.
Unwind ==
    /\ pc = "unwind"
    /\ stack # <<>>
    /\ PopTop
    /\ UNCHANGED <<fn, args, pc, mode, bufs, depth0, dlg, loc, result, mb>>

\* The caller gets ret, None or the OSError.
Return ==
    /\ pc = "unwind"
    /\ stack = <<>>
    /\ pc' = "done"
    /\ result' = IF mode = "raise" THEN [kind |-> "OSError", str |-> "", list |-> <<>>]
                 ELSE IF mode = "return" THEN [kind |-> "None", str |-> "", list |-> <<>>]
                 ELSE loc.ret
    /\ UNCHANGED <<fn, args, mode, stack, objs, bufs, log, comDepth, depth0, dlg,
                   loc, mb>>

\* The caller has taken the result; the thread can make its next call.
NextCall ==
    /\ pc = "done"
    /\ pc' = "idle"
    /\ fn' = "none"
    /\ args' = NoArgs
    /\ mode' = "run"
    /\ objs' = <<>>
    /\ bufs' = <<>>
    /\ log' = <<>>
    /\ depth0' = comDepth
    /\ dlg' = NoDlg
    /\ loc' = NoLoc
    /\ result' = NoResult
    /\ UNCHANGED <<stack, comDepth, mb>>

Next ==
    \/ Call
    \/ NextCall
    \/ CoInitializeEx
    \/ CoCreateInstance
    \/ GetOptions
    \/ SetOptions
    \/ IfInitialdir
    \/ SHCreateItemFromParsingName
    \/ SetFolder
    \/ ExitFolderItem
    \/ IfInitialfile
    \/ SetFileName
    \/ IfFiletypes
    \/ SetFileTypes
    \/ SetDefaultExtension
    \/ Show
    \/ WithResult
    \/ GetResult
    \/ GetResults
    \/ GetCount
    \/ ForLoop
    \/ GetItemAt
    \/ GetDisplayName
    \/ CopyOutAndFree
    \/ ExitLoopItem
    \/ Unwind
    \/ Return

Spec == Init /\ [][Next]_vars

-----------------------------------------------------------------------------
\* wdlg/messagebox.py

\* Button ids the OS writes to pnButton, and the dwCommonButtons flags.
IDOK == 1
IDCANCEL == 2
IDRETRY == 4
IDYES == 6
IDNO == 7
IDCLOSE == 8
TDCBF_OK_BUTTON == 1
TDCBF_YES_BUTTON == 2
TDCBF_NO_BUTTON == 4
TDCBF_CANCEL_BUTTON == 8
TDCBF_RETRY_BUTTON == 16
TDCBF_CLOSE_BUTTON == 32
\* Icons: c_wchar_p(32514), c_wchar_p(0xFFFF), c_wchar_p(0xFFFE), c_wchar_p(0xFFFD).
IDI_QUESTION == 32514
WARNING_ICON == 65535
ERROR_ICON == 65534
INFORMATION_ICON == 65533
NoIcon == 0

OptStrs == {None, "a", "b"}
HInstances == {None, "HINST1"}
ButtonFlags == {0, 1, 6, 9, 14, 24, 32}
Icons == {NoIcon, WARNING_ICON, IDI_QUESTION}

HasBit(flags, bit) == (flags \div bit) % 2 = 1

\* The buttons TaskDialog displays for dwCommonButtons (docstring of taskdialog);
\* with no flag it displays OK.
Displayed(flags) ==
    LET ids == (IF HasBit(flags, TDCBF_OK_BUTTON) THEN {IDOK} ELSE {})
               \cup (IF HasBit(flags, TDCBF_YES_BUTTON) THEN {IDYES} ELSE {})
               \cup (IF HasBit(flags, TDCBF_NO_BUTTON) THEN {IDNO} ELSE {})
               \cup (IF HasBit(flags, TDCBF_CANCEL_BUTTON) THEN {IDCANCEL} ELSE {})
               \cup (IF HasBit(flags, TDCBF_RETRY_BUTTON) THEN {IDRETRY} ELSE {})
               \cup (IF HasBit(flags, TDCBF_CLOSE_BUTTON) THEN {IDCLOSE} ELSE {})
    IN IF ids = {} THEN {IDOK} ELSE ids

\* argtypes c_void_p: None, a handle, or a str, passed as the address of its text.
AddressOf(s) == IF s = "a" THEN "&a" ELSE "&b"
c_void_p(x) == IF x \in OptStrs \ {None} THEN AddressOf(x) ELSE x

\* argtypes c_wchar_p: None or a str; anything else is a ctypes.ArgumentError.
c_wchar_p_ok(x) == x \in OptStrs

NotCalled == [called |-> FALSE, hwndOwner |-> None, hInstance |-> None,
              pszWindowTitle |-> None, pszMainInstruction |-> None,
              pszContent |-> None, dwCommonButtons |-> 0, pszIcon |-> NoIcon]

windll_returns(failed) == FALSE

\* oledll: a failure HRESULT is raised as OSError.
oledll_raises(failed) == failed

\* taskdialog: every way the call can end, as [td, hr, nButton, outcome, value]:
\* the arguments TaskDialog received, the HRESULT it returned, what it wrote to
\* pnButton, and how the call ended, with the value returned.
taskdialog(hwndOwner, hInstance, pszWindowTitle, pszMainInstruction, pszContent, dwCommonButtons, pszIcon) ==
    LET td == [called |-> TRUE,
               hwndOwner |-> c_void_p(hwndOwner),
               hInstance |-> c_void_p(hInstance),
               pszWindowTitle |-> pszWindowTitle,
               pszMainInstruction |-> pszMainInstruction,
               pszContent |-> pszContent,
               dwCommonButtons |-> dwCommonButtons,
               pszIcon |-> pszIcon]
    IN IF ~(c_wchar_p_ok(pszWindowTitle) /\ c_wchar_p_ok(pszMainInstruction)
            /\ c_wchar_p_ok(pszContent))
       THEN {[td |-> NotCalled, hr |-> "none", nButton |-> 0,
              outcome |-> "ArgumentError", value |-> 0]}
       ELSE {[td |-> td, hr |-> "S_OK", nButton |-> b, outcome |-> "returned",
              value |-> b] : b \in Displayed(dwCommonButtons)}
            \cup {[td |-> td, hr |-> "E_FAIL", nButton |-> 0,
                   outcome |-> IF oledll_raises(TRUE) THEN "OSError" ELSE "returned",
                   value |-> 0]}

\* A wrapper's result: what it returns for taskdialog's value, or the exception.
Wrap(r, ret) ==
    [td |-> r.td, hr |-> r.hr, nButton |-> r.nButton, outcome |-> r.outcome,
     value |-> r.value, ret |-> IF r.outcome = "returned" THEN ret ELSE "raised"]

showinfo(hwnd, title, main_msg, message) ==
    {Wrap(r, "None") :
        r \in taskdialog(hwnd, None, title, main_msg, message, 1, INFORMATION_ICON)}
showwarning(hwnd, title, main_msg, message) ==
    {Wrap(r, "None") :
        r \in taskdialog(hwnd, None, title, main_msg, message, 1, WARNING_ICON)}
showerror(hwnd, title, main_msg, message) ==
    {Wrap(r, "None") :
        r \in taskdialog(hwnd, None, title, main_msg, message, 1, ERROR_ICON)}

askokcancel_ret(ret) == IF ret = 1 THEN "True" ELSE "False"
askokcancel(hwnd, title, main_msg, message) ==
    {Wrap(r, askokcancel_ret(r.value)) :
        r \in taskdialog(hwnd, None, title, main_msg, message, 9, IDI_QUESTION)}

askquestion_ret(ret) == IF ret = 6 THEN "True" ELSE "False"
askquestion(hwnd, title, main_msg, message) ==
    {Wrap(r, askquestion_ret(r.value)) :
        r \in taskdialog(hwnd, None, title, main_msg, message, 6, IDI_QUESTION)}

askretrycancel_ret_Yes(ret) == IF ret = 6 THEN "True" ELSE "False"
askretrycancel_ret(ret) == IF ret = 4 THEN "True" ELSE "False"
askretrycancel(hwnd, title, main_msg, message) ==
    {Wrap(r, askretrycancel_ret(r.value)) :
        r \in taskdialog(hwnd, None, title, main_msg, message, 24, WARNING_ICON)}

\* return askquestion(title, main_msg, message, hwnd)
askyesno(hwnd, title, main_msg, message) ==
    askquestion(title, main_msg, message, hwnd)

askyesnocancel_ret_Bool(ret) == IF ret = 6 THEN "True" ELSE "False"
askyesnocancel_ret(ret) ==
    IF ret = 6 THEN "True" ELSE IF ret = 7 THEN "False" ELSE "None"
askyesnocancel(hwnd, title, main_msg, message) ==
    {Wrap(r, askyesnocancel_ret(r.value)) :
        r \in taskdialog(hwnd, None, title, main_msg, message, 14, WARNING_ICON)}

\* The record of a finished call: the function, the caller's arguments, the outcome.
Called(f, hwnd, hInstance, title, main_msg, message, buttons, icon, r) ==
    [fn |-> f,
     a |-> [hwnd |-> hwnd, hInstance |-> hInstance, title |-> title,
            main_msg |-> main_msg, message |-> message, buttons |-> buttons,
            icon |-> icon],
     td |-> r.td, hr |-> r.hr, nButton |-> r.nButton, outcome |-> r.outcome,
     value |-> r.value, ret |-> r.ret]

MbArgs == [hwnd : Hwnds, title : OptStrs, main_msg : OptStrs, message : OptStrs]

Call_taskdialog ==
    /\ mb.fn = "none"
    /\ \E hwnd \in Hwnds, hInstance \in HInstances, title \in OptStrs,
          main_msg \in OptStrs, message \in OptStrs, buttons \in ButtonFlags,
          icon \in Icons :
          \E r \in taskdialog(hwnd, hInstance, title, main_msg, message, buttons, icon) :
             mb' = Called("taskdialog", hwnd, hInstance, title, main_msg, message,
                          buttons, icon,
                          [td |-> r.td, hr |-> r.hr, nButton |-> r.nButton,
                           outcome |-> r.outcome, value |-> r.value,
                           ret |-> IF r.outcome = "returned" THEN "int" ELSE "raised"])
    /\ UNCHANGED fdvars

Call_showinfo ==
    /\ mb.fn = "none"
    /\ \E a \in MbArgs :
          \E r \in showinfo(a.hwnd, a.title, a.main_msg, a.message) :
             mb' = Called("showinfo", a.hwnd, None, a.title, a.main_msg, a.message,
                          0, NoIcon, r)
    /\ UNCHANGED fdvars

Call_showwarning ==
    /\ mb.fn = "none"
    /\ \E a \in MbArgs :
          \E r \in showwarning(a.hwnd, a.title, a.main_msg, a.message) :
             mb' = Called("showwarning", a.hwnd, None, a.title, a.main_msg, a.message,
                          0, NoIcon, r)
    /\ UNCHANGED fdvars

Call_showerror ==
    /\ mb.fn = "none"
    /\ \E a \in MbArgs :
          \E r \in showerror(a.hwnd, a.title, a.main_msg, a.message) :
             mb' = Called("showerror", a.hwnd, None, a.title, a.main_msg, a.message,
                          0, NoIcon, r)
    /\ UNCHANGED fdvars

Call_askokcancel ==
    /\ mb.fn = "none"
    /\ \E a \in MbArgs :
          \E r \in askokcancel(a.hwnd, a.title, a.main_msg, a.message) :
             mb' = Called("askokcancel", a.hwnd, None, a.title, a.main_msg, a.message,
                          0, NoIcon, r)
    /\ UNCHANGED fdvars

Call_askquestion ==
    /\ mb.fn = "none"
    /\ \E a \in MbArgs :
          \E r \in askquestion(a.hwnd, a.title, a.main_msg, a.message) :
             mb' = Called("askquestion", a.hwnd, None, a.title, a.main_msg, a.message,
                          0, NoIcon, r)
    /\ UNCHANGED fdvars

Call_askretrycancel ==
    /\ mb.fn = "none"
    /\ \E a \in MbArgs :
          \E r \in askretrycancel(a.hwnd, a.title, a.main_msg, a.message) :
             mb' = Called("askretrycancel", a.hwnd, None, a.title, a.main_msg, a.message,
                          0, NoIcon, r)
    /\ UNCHANGED fdvars

Call_askyesno ==
    /\ mb.fn = "none"
    /\ \E a \in MbArgs :
          \E r \in askyesno(a.hwnd, a.title, a.main_msg, a.message) :
             mb' = Called("askyesno", a.hwnd, None, a.title, a.main_msg, a.message,
                          0, NoIcon, r)
    /\ UNCHANGED fdvars

Call_askyesnocancel ==
    /\ mb.fn = "none"
    /\ \E a \in MbArgs :
          \E r \in askyesnocancel(a.hwnd, a.title, a.main_msg, a.message) :
             mb' = Called("askyesnocancel", a.hwnd, None, a.title, a.main_msg, a.message,
                          0, NoIcon, r)
    /\ UNCHANGED fdvars

\* The caller has taken the result; the next call can be made.
Taken ==
    /\ mb.fn # "none"
    /\ mb' = NoMb
    /\ UNCHANGED fdvars

NextMB ==
    \/ Taken
    \/ Call_taskdialog
    \/ Call_showinfo
    \/ Call_showwarning
    \/ Call_showerror
    \/ Call_askokcancel
    \/ Call_askquestion
    \/ Call_askretrycancel
    \/ Call_askyesno
    \/ Call_askyesnocancel

SpecMB == Init /\ [][NextMB]_vars

-----------------------------------------------------------------------------
\* Properties of the file dialog functions (checked under Spec).

Count(ops) == Cardinality({k \in 1..Len(log) : log[k].op \in ops})
Invoked(ops) == \E k \in 1..Len(log) : log[k].op \in ops
Finished == pc = "done"
SingleResult == {"askdirectory", "askopenfilename", "asksaveasfilename"}

\* C1: every COM interface pointer a file dialog call acquires (dialog, shell
\* items, shell item array) is released exactly once on every exit path, and
\* Release is never called through a pointer that was never acquired.
C1_ReleasedExactlyOnce ==
    /\ \A i \in 1..Len(objs) : objs[i].releases <= 1
    /\ \A k \in 1..Len(log) :
          log[k].op = "Release" => log[k].ptr \in 1..Len(objs)
    /\ Finished =>
          /\ \A i \in 1..Len(objs) : objs[i].releases = 1
          /\ Count({"Release"}) = Len(objs)

\* An askopenfilenames call that acquired the dialog, the array and an item,
\* then failed in GetItemAt and ended with OSError.
C1_Witness ==
    /\ Finished
    /\ fn = "askopenfilenames"
    /\ result.kind = "OSError"
    /\ Invoked({"GetItemAt!"})
    /\ Len(objs) >= 3

\* C2: each successful CoInitializeEx is matched by exactly one CoUninitialize on
\* every exit path, a failed CoInitializeEx is followed by none, and the COM
\* initialization depth after a call equals the depth before it.
C2_ComBalanced ==
    /\ Count({"CoUninitialize"}) <= Count({"CoInitializeEx"})
    /\ Invoked({"CoInitializeEx!"}) => ~Invoked({"CoUninitialize"})
    /\ pc \in {"idle", "done"} =>
          /\ comDepth = depth0
          /\ Count({"CoUninitialize"}) = Count({"CoInitializeEx"})
    /\ pc \notin {"idle", "done"} =>
          comDepth = depth0 + Count({"CoInitializeEx"}) - Count({"CoUninitialize"})

\* A call that initialized COM, raised OSError later and has uninitialized COM.
C2_Witness ==
    /\ Finished
    /\ result.kind = "OSError"
    /\ Count({"CoInitializeEx"}) = 1
    /\ Count({"CoUninitialize"}) = 1
    /\ depth0 = 1

\* C3: when Show reports an OS error the function returns None instead of
\* raising, never calls GetResult/GetResults, and still releases the dialog and
\* uninitializes COM.
C3_ShowErrorGivesNone ==
    Invoked({"Show!"}) =>
       /\ ~Invoked({"GetResult", "GetResult!", "GetResults", "GetResults!"})
       /\ Finished =>
             /\ result.kind = "None"
             /\ objs[1].kind = "dlg" /\ objs[1].releases = 1
             /\ Count({"CoUninitialize"}) = 1
             /\ comDepth = depth0

\* A cancelled asksaveasfilename call with a folder, a file name and file types.
C3_Witness ==
    /\ Finished
    /\ fn = "asksaveasfilename"
    /\ Invoked({"Show!"})
    /\ Invoked({"SetFolder"}) /\ Invoked({"SetFileName"}) /\ Invoked({"SetFileTypes"})
    /\ result.kind = "None"

\* C5: when Show succeeds, askdirectory, askopenfilename and asksaveasfilename
\* return exactly the path GetDisplayName produced for the item GetResult
\* returned; the string is copied before its buffer is freed, and the buffer is
\* freed with CoTaskMemFree exactly once.
C5_SinglePathCopiedThenFreed ==
    /\ \A b \in 1..Len(bufs) : bufs[b].frees <= 1
    /\ Finished => \A b \in 1..Len(bufs) : bufs[b].frees = 1
    /\ (fn \in SingleResult /\ Finished /\ Invoked({"Show"})) =>
          /\ result.kind \in {"str", "OSError"}
          /\ result.kind = "str" <=> Invoked({"GetDisplayName"})
          /\ result.kind = "str" =>
                /\ Len(bufs) = 1
                /\ result.str = bufs[1].str
                /\ result.str = objs[Len(objs)].path
                /\ result.str = dlg.selection[1]
                /\ Count({"CoTaskMemFree"}) = 1

\* askdirectory returned the selected path.
C5_Witness ==
    /\ Finished
    /\ fn = "askdirectory"
    /\ result.kind = "str"
    /\ result.str \in Paths
    /\ bufs[1].frees = 1

\* C6: when Show succeeds, askopenfilenames returns a list as long as GetCount
\* reported, whose i-th element is the path of the item GetItemAt returns for
\* index i, in index order; each item is released before the next is fetched.
C6_ListInIndexOrder ==
    fn = "askopenfilenames" =>
       /\ pc = "GetItemAt" =>
             \A o \in 1..Len(objs) : objs[o].kind = "item" => objs[o].releases = 1
       /\ (Finished /\ result.kind = "list") =>
             /\ Len(result.list) = loc.count
             /\ loc.count = Len(dlg.selection)
             /\ \A i \in 1..Len(result.list) : result.list[i] = dlg.selection[i]
             /\ Count({"GetItemAt"}) = loc.count
       /\ (Finished /\ Invoked({"Show"})) => result.kind \in {"list", "OSError"}

\* askopenfilenames returned two different paths.
C6_Witness ==
    /\ Finished
    /\ fn = "askopenfilenames"
    /\ result.kind = "list"
    /\ Len(result.list) = 2
    /\ result.list[1] # result.list[2]

\* The phase of an OS call in the fixed sequence; a failed call ("!") is still a
\* call.  Releasing a shell item has no phase of its own (0).
Phase(e) ==
    CASE e.op \in {"CoInitializeEx", "CoInitializeEx!"} -> 1
      [] e.op \in {"CoCreateInstance", "CoCreateInstance!"} -> 2
      [] e.op \in {"GetOptions", "GetOptions!"} -> 3
      [] e.op \in {"SetOptions", "SetOptions!"} -> 4
      [] e.op \in {"SHCreateItemFromParsingName", "SHCreateItemFromParsingName!"} -> 5
      [] e.op \in {"SetFolder", "SetFolder!"} -> 6
      [] e.op \in {"SetFileName", "SetFileName!"} -> 7
      [] e.op \in {"SetFileTypes", "SetFileTypes!"} -> 8
      [] e.op \in {"SetDefaultExtension", "SetDefaultExtension!"} -> 9
      [] e.op \in {"Show", "Show!"} -> 10
      [] e.op \in {"GetResult", "GetResult!", "GetResults", "GetResults!"} -> 11
      [] e.op \in {"GetCount", "GetCount!", "GetItemAt", "GetItemAt!",
                   "GetDisplayName", "GetDisplayName!", "CoTaskMemFree"} -> 12
      [] e.op = "Release" /\ e.ptr = 1 -> 13
      [] e.op = "CoUninitialize" -> 14
      [] OTHER -> 0

ShowOps == {"Show", "Show!"}
GetResultOps == {"GetResult", "GetResult!", "GetResults", "GetResults!"}
FailedBeforeShow ==
    Invoked({"CoInitializeEx!", "CoCreateInstance!", "GetOptions!", "SetOptions!",
             "SHCreateItemFromParsingName!", "SetFolder!", "SetFileName!",
             "SetFileTypes!", "SetDefaultExtension!"})

\* The k-th call of the log comes after every earlier call in the fixed order,
\* each phase up to GetResult being entered at most once, so that nothing is
\* configured after Show; and GetResult/GetResults comes after a Show that
\* succeeded.
InOrder(k) ==
    LET p == Phase(log[k]) IN
    /\ p > 0 =>
          \A j \in 1..(k - 1) :
             LET q == Phase(log[j]) IN
             q > 0 => (q <= p /\ (p <= 11 => q < p))
    /\ p = 11 => \E j \in 1..(k - 1) : log[j].op = "Show"

\* The log grows by one call per step and is emptied only between calls, so the
\* newest call being in order in every reachable state puts every call in order.
FixedOrder == log # <<>> => InOrder(Len(log))

\* C10 as stated: the fixed order, with Show invoked exactly once in every call.
C10_ShowExactlyOnce ==
    /\ FixedOrder
    /\ Finished => Count(ShowOps) = 1

\* C10, amended: every file dialog call performs its COM steps in the fixed
\* order; no configuration call happens after Show; GetResult/GetResults is
\* invoked only after Show has succeeded; Show is invoked at most once per call,
\* and exactly once in every call in which no step before Show failed.
C10_FixedOrderShowAtMostOnce ==
    /\ FixedOrder
    /\ Count(ShowOps) <= 1
    /\ Finished => (Count(ShowOps) = 1 <=> ~FailedBeforeShow)

\* An askopenfilenames call that configured everything, showed the dialog and
\* returned its list.
C10_Witness ==
    /\ Finished
    /\ fn = "askopenfilenames"
    /\ result.kind = "list"
    /\ Invoked({"SetOptions"}) /\ Invoked({"SetFolder"}) /\ Invoked({"SetFileName"})
    /\ Invoked({"SetDefaultExtension"})
    /\ Count(ShowOps) = 1

-----------------------------------------------------------------------------
\* Properties of the message boxes (checked under SpecMB).

\* C4: askyesno(hwnd, title, main_msg, message) shows the same dialog and gives
\* the same result as askquestion(hwnd, title, main_msg, message): the owner
\* window is hwnd, the title is title, the main instruction is main_msg and the
\* content is message.
C4_AskyesnoIsAskquestion ==
    mb.fn = "askyesno" =>
       /\ \E r \in askquestion(mb.a.hwnd, mb.a.title, mb.a.main_msg, mb.a.message) :
             /\ r.td = mb.td
             /\ r.outcome = mb.outcome
             /\ r.ret = mb.ret
       /\ mb.td.called =>
             /\ mb.td.hwndOwner = mb.a.hwnd
             /\ mb.td.pszWindowTitle = mb.a.title
             /\ mb.td.pszMainInstruction = mb.a.main_msg
             /\ mb.td.pszContent = mb.a.message

AskButtons(f) ==
    CASE f = "askokcancel" -> [yes |-> IDOK, shown |-> {IDOK, IDCANCEL}]
      [] f = "askquestion" -> [yes |-> IDYES, shown |-> {IDYES, IDNO}]
      [] f = "askretrycancel" -> [yes |-> IDRETRY, shown |-> {IDRETRY, IDCANCEL}]

\* C7: askokcancel returns True exactly when IDOK was selected, askquestion
\* exactly when IDYES was, askretrycancel exactly when IDRETRY was; each returns
\* False for every other button, and the button that yields True is among the
\* buttons displayed (OK|Cancel, Yes|No, Retry|Cancel).
C7_TrueForTheAffirmativeButton ==
    (mb.fn \in {"askokcancel", "askquestion", "askretrycancel"}
     /\ mb.outcome = "returned") =>
       /\ mb.ret \in {"True", "False"}
       /\ mb.ret = "True" <=> mb.nButton = AskButtons(mb.fn).yes
       /\ Displayed(mb.td.dwCommonButtons) = AskButtons(mb.fn).shown
       /\ AskButtons(mb.fn).yes \in Displayed(mb.td.dwCommonButtons)

\* askretrycancel returned True for Retry.
C7_Witness ==
    /\ mb.fn = "askretrycancel"
    /\ mb.outcome = "returned"
    /\ mb.nButton = IDRETRY
    /\ mb.ret = "True"

\* C8: askyesnocancel displays Yes, No and Cancel and returns True for Yes,
\* False for No and None for Cancel, never True or False for Cancel and never
\* None for Yes or No.
C8_YesNoCancel ==
    (mb.fn = "askyesnocancel" /\ mb.outcome = "returned") =>
       /\ Displayed(mb.td.dwCommonButtons) = {IDYES, IDNO, IDCANCEL}
       /\ mb.ret = "True" <=> mb.nButton = IDYES
       /\ mb.ret = "False" <=> mb.nButton = IDNO
       /\ mb.ret = "None" <=> mb.nButton = IDCANCEL

\* askyesnocancel returned None for Cancel.
C8_Witness ==
    /\ mb.fn = "askyesnocancel"
    /\ mb.outcome = "returned"
    /\ mb.nButton = IDCANCEL
    /\ mb.ret = "None"

\* taskdialog passes its seven arguments to TaskDialog unchanged, in order.
PassedThrough ==
    /\ mb.td.hwndOwner = mb.a.hwnd
    /\ mb.td.hInstance = mb.a.hInstance
    /\ mb.td.pszWindowTitle = mb.a.title
    /\ mb.td.pszMainInstruction = mb.a.main_msg
    /\ mb.td.pszContent = mb.a.message
    /\ mb.td.dwCommonButtons = mb.a.buttons
    /\ mb.td.pszIcon = mb.a.icon

-----------------------------------------------------------------------------
\* Further properties of the file dialog functions (checked under Spec).

FailedAfterShow ==
    Invoked({"GetResult!", "GetResults!", "GetCount!", "GetItemAt!",
             "GetDisplayName!"})

\* C11: an OS error raised by any step other than Show (CoInitializeEx,
\* CoCreateInstance, GetOptions/SetOptions, SHCreateItemFromParsingName,
\* SetFolder, SetFileName, SetFileTypes, SetDefaultExtension, GetResult/GetResults,
\* GetCount, GetItemAt, GetDisplayName) propagates to the caller as OSError and is
\* never converted to a None result; if the failing step precedes Show, the
\* dialog is never shown.
C11_OtherErrorsPropagate ==
    /\ (FailedBeforeShow \/ FailedAfterShow) =>
          /\ mode = "raise"
          /\ Finished => result.kind = "OSError"
    /\ FailedBeforeShow => ~Invoked(ShowOps)
    /\ (Finished /\ result.kind = "None") => Invoked({"Show!"})
    /\ (Finished /\ result.kind = "OSError") =>
          (FailedBeforeShow \/ FailedAfterShow)

\* An asksaveasfilename call whose SetFileTypes failed: OSError, no dialog shown.
C11_Witness ==
    /\ Finished
    /\ fn = "asksaveasfilename"
    /\ Invoked({"SetFileTypes!"})
    /\ result.kind = "OSError"
    /\ ~Invoked(ShowOps)

\* C12: teardown is last-acquired-first-released on every exit path: no method
\* is invoked through an interface pointer after that pointer has been released,
\* each shell item (and the shell item array) is released before the dialog, and
\* CoUninitialize is called only after every interface pointer acquired by the
\* call has been released.
\* (The log grows by one call per step, so the newest call not using a released
\* pointer in every reachable state means no call of the log does; likewise a
\* pointer is released only when everything acquired after it has been.)
C12_LastAcquiredFirstReleased ==
    /\ log # <<>> =>
          LET e == log[Len(log)] IN
          /\ (e.op # "Release" /\ e.ptr # 0) =>
                (e.ptr \in 1..Len(objs) /\ objs[e.ptr].releases = 0)
          /\ e.op = "Release" =>
                \A q \in (e.ptr + 1)..Len(objs) : objs[q].releases = 1
    /\ (objs # <<>> /\ objs[1].releases > 0) =>
          /\ objs[1].kind = "dlg"
          /\ \A i \in 2..Len(objs) : objs[i].releases = 1
    /\ Invoked({"CoUninitialize"}) =>
          \A i \in 1..Len(objs) : objs[i].releases = 1

\* An askopenfilenames call with an initial folder that fetched its second item
\* and then failed in GetDisplayName: five pointers acquired, all released.
C12_Witness ==
    /\ Finished
    /\ fn = "askopenfilenames"
    /\ result.kind = "OSError"
    /\ Invoked({"GetDisplayName!"})
    /\ Len(objs) = 5
    /\ Invoked({"CoUninitialize"})

SetFolderOps == {"SHCreateItemFromParsingName", "SHCreateItemFromParsingName!",
                 "SetFolder", "SetFolder!"}
SetFileNameOps == {"SetFileName", "SetFileName!"}
SetFileTypesOps == {"SetFileTypes", "SetFileTypes!", "SetDefaultExtension",
                    "SetDefaultExtension!"}

\* C13: initialdir, initialfile and filetypes are applied if and only if they are
\* non-empty: for None, "" or [] the COM call (SetFolder, SetFileName,
\* SetFileTypes) is not made; for non-empty filetypes SetFileTypes receives
\* exactly len(filetypes) filter specs whose i-th (name, spec) pair is
\* filetypes[i], in order, followed by SetDefaultExtension with "".
\* ("If": a non-empty argument has been applied in every call that reaches Show.)
C13_OptionalArgumentsApplied ==
    /\ Invoked(SetFolderOps) => Truthy(args.initialdir)
    /\ Invoked(SetFileNameOps) => Truthy(args.initialfile)
    /\ Invoked(SetFileTypesOps) => TruthyList(args.filetypes)
    /\ Invoked(ShowOps) =>
          /\ Truthy(args.initialdir) <=> Invoked({"SetFolder"})
          /\ Truthy(args.initialfile) <=> Invoked({"SetFileName"})
          /\ TruthyList(args.filetypes) <=> Invoked({"SetFileTypes"})
          /\ TruthyList(args.filetypes) <=> Invoked({"SetDefaultExtension"})
    /\ IF Invoked({"SetFolder"})
       THEN dlg.folder \in 1..Len(objs) /\ objs[dlg.folder].path = args.initialdir
       ELSE dlg.folder = 0
    /\ dlg.fileName = IF Invoked({"SetFileName"}) THEN args.initialfile ELSE None
    /\ IF Invoked({"SetFileTypes"})
       THEN /\ dlg.nFileTypes = Len(args.filetypes.list)
            /\ Len(dlg.fileTypes) = Len(args.filetypes.list)
            /\ \A i \in 1..Len(args.filetypes.list) :
                  <<dlg.fileTypes[i].pszName, dlg.fileTypes[i].pszSpec>>
                     = args.filetypes.list[i]
       ELSE dlg.nFileTypes = 0 /\ dlg.fileTypes = <<>>
    /\ dlg.defaultExt = IF Invoked({"SetDefaultExtension"}) THEN "" ELSE None
    /\ \A k \in 1..Len(log) :
          /\ (log[k].op = "SetFileTypes" /\ k < Len(log)) =>
                log[k + 1].op \in {"SetDefaultExtension", "SetDefaultExtension!"}
          /\ log[k].op \in {"SetDefaultExtension", "SetDefaultExtension!"} =>
                (k > 1 /\ log[k - 1].op = "SetFileTypes")

\* An askopenfilename call shown with a folder, an empty initialfile (not
\* applied) and two different file types.
C13_Witness ==
    /\ fn = "askopenfilename"
    /\ Invoked({"Show"})
    /\ args.initialdir = "C:\\dir"
    /\ args.initialfile = ""
    /\ Len(args.filetypes.list) = 2
    /\ args.filetypes.list[1] # args.filetypes.list[2]
    /\ Invoked({"SetDefaultExtension"})

\* The single-bit values of the low 16 bits of a c_uint32 option word.
OptionBits == {2^b : b \in 0..15}

\* C14: askdirectory and askopenfilenames only add an option bit: the value
\* passed to SetOptions is the value GetOptions returned with FOS_PICKFOLDERS
\* (0x20) respectively FOS_ALLOWMULTISELECT (0x200) set, so no bit the dialog
\* already had is cleared and no other bit is added; askopenfilename and
\* asksaveasfilename never call SetOptions and leave the default options.
C14_OnlyTheOptionBitIsAdded ==
    /\ fn \in {"askdirectory", "askopenfilenames"} =>
          LET added == IF fn = "askdirectory" THEN FOS_PICKFOLDERS
                       ELSE FOS_ALLOWMULTISELECT IN
          /\ Invoked({"GetOptions"}) => loc.options = DefaultOptions(fn)
          /\ Invoked({"SetOptions"}) =>
                /\ dlg.options < 2^16
                /\ \A bit \in OptionBits :
                      HasBit(dlg.options, bit) <=>
                         (HasBit(loc.options, bit) \/ bit = added)
          /\ (Invoked({"CoCreateInstance"}) /\ ~Invoked({"SetOptions"})) =>
                dlg.options = DefaultOptions(fn)
          /\ Invoked(ShowOps) => Invoked({"SetOptions"})
    /\ fn \in {"askopenfilename", "asksaveasfilename"} =>
          /\ ~Invoked({"GetOptions", "GetOptions!", "SetOptions", "SetOptions!"})
          /\ Invoked({"CoCreateInstance"}) => dlg.options = DefaultOptions(fn)

\* askopenfilenames was shown with the default options plus FOS_ALLOWMULTISELECT.
C14_Witness ==
    /\ fn = "askopenfilenames"
    /\ Invoked({"SetOptions"})
    /\ Invoked({"Show"})
    /\ dlg.options = FOS_PATHMUSTEXIST + FOS_FILEMUSTEXIST + FOS_ALLOWMULTISELECT

====
